---- MODULE Spec2Model ----
(***************************************************************************)
(* Model of BoggleSolver.py: the Trie built from a word dictionary and the *)
(* trie-pruned backtracking DFS over a letter board, driven through        *)
(* generateValidWords.                                                     *)
(*                                                                         *)
(* A character is a one-character string, a word is a sequence of          *)
(* characters, a board is a sequence of rows, a row a sequence of cells.   *)
(* Rows and columns are numbered from 0 as in the source, so cell          *)
(* (row, col) of board b is b[row + 1][col + 1].                           *)
(* A trie node is identified by the sequence of letters that leads to it   *)
(* from the root; the root is << >>.                                       *)
(***************************************************************************)
EXTENDS Integers, Sequences, FiniteSets, TLC

VARIABLES
    board,           \* the caller's board object, self.board (line 13)
    original,        \* the board as the caller passed it to the first call
    wordDictionary,  \* the dictionary, Trie.wordDictionary (line 98)
    call,            \* 1 or 2: which call of generateValidWords this is
    pc,              \* "start", "build", "search" or "returned"
    wordTrie,        \* self.wordTrie (line 14): its nodes and valid nodes
    buildIdx,        \* position of the loop of Trie.buildRoot (line 106)
    cursor,          \* position of the loops of findValidWords (lines 79-80)
    stack,           \* the active invocations of DFS, outermost first
    validWords,      \* self.validWords (line 19)
    result,          \* what the current call returned or raised
    firstResult      \* what the first call returned or raised

vars == <<board, original, wordDictionary, call, pc, wordTrie, buildIdx,
          cursor, stack, validWords, result, firstResult>>

(***************************************************************************)
(* Bounds of the model.                                                    *)
(***************************************************************************)
MaxDictLen == 2

(***************************************************************************)
(* str.upper() on the characters the inputs use.                           *)
(***************************************************************************)
LowerLetters == <<"a","b","c","d","e","f","g","h","i","j","k","l","m",
                  "n","o","p","q","r","s","t","u","v","w","x","y","z">>

UpperLetters == <<"A","B","C","D","E","F","G","H","I","J","K","L","M",
                  "N","O","P","Q","R","S","T","U","V","W","X","Y","Z">>

Upper(c) ==
    IF \E i \in 1..Len(LowerLetters) : LowerLetters[i] = c
    THEN UpperLetters[CHOOSE i \in 1..Len(LowerLetters) : LowerLetters[i] = c]
    ELSE c

UpperWord(word) == [i \in 1..Len(word) |-> Upper(word[i])]

(***************************************************************************)
(* Program constants.                                                      *)
(***************************************************************************)
minimumValidWordLength == 3

validBoardSize == 4

directions == << <<-1,-1>>, <<-1,0>>, <<-1,1>>, <<0,-1>>,
                 <<0,1>>, <<1,-1>>, <<1,0>>, <<1,1>> >>

EmptySetOutcome == [tag |-> "set", val |-> {}]

InvalidBoardSize ==
    [tag |-> "str", val |-> "Invalid board size. Please use a 4x4 board."]

(***************************************************************************)
(* Inputs: the words dictionaries are drawn from, and the boards.          *)
(***************************************************************************)
CAT == <<"C","A","T">>

CATS == <<"C","A","T","S">>

AT == <<"A","T">>

CA == <<"C","A">>

dog == <<"d","o","g">>

LONG == <<"A","B","C","D","E","F","G","H","I","J","K","L","M","N","O","P","O">>

Words == {CAT, CATS, AT, CA, dog, LONG}

RECURSIVE SeqsUpTo(_, _)
SeqsUpTo(S, n) ==
    IF n = 0 THEN {<< >>}
    ELSE LET shorter == SeqsUpTo(S, n - 1)
         IN  shorter \cup {Append(s, w) : s \in shorter, w \in S}

Dictionaries == SeqsUpTo(Words, MaxDictLen)

BoardCats == << <<"C","A","T","S">>, <<"X","X","X","X">>,
                <<"D","O","G","X">>, <<"X","X","X","X">> >>

BoardMixed == << <<"c","a","t","s">>, <<"x","X","x","X">>,
                 <<"d","O","g","x">>, <<"x","x","x","x">> >>

BoardSnake == << <<"A","B","C","D">>, <<"H","G","F","E">>,
                 <<"I","J","K","L">>, <<"P","O","N","M">> >>

BoardDense == << <<"C","A","T","S">>, <<"t","a","c","X">>,
                 <<"X","X","X","X">>, <<"X","X","X","X">> >>

BoardShortRow == << <<"C","A","T","S">>, <<"X","X","X">>,
                    <<"D","O","G","X">>, <<"X","X","X","X">> >>

BoardLongRow == << <<"C","A","T","S">>, <<"X","X","X","X","S">>,
                   <<"D","O","G","X">>, <<"X","X","X","X">> >>

Board3x3 == << <<"C","A","T">>, <<"A","T","S">>, <<"X","X","O">> >>

Board5x4 == << <<"C","A","T","S">>, <<"X","X","X","X">>, <<"D","O","G","X">>,
               <<"X","X","X","X">>, <<"X","X","X","X">> >>

Board4x3 == << <<"C","A","T">>, <<"X","X","X">>,
               <<"D","O","G">>, <<"X","X","X">> >>

BoardEmpty == << >>

Boards == {BoardCats, BoardMixed, BoardSnake, BoardDense, BoardShortRow,
           BoardLongRow, Board3x3, Board5x4, Board4x3, BoardEmpty}

(***************************************************************************)
(* Trie.                                                                   *)
(***************************************************************************)
NoTrie == [nodes |-> {}, valid |-> {}]

TrieNode == [nodes |-> {<< >>}, valid |-> {}]

\* A newly created child is marked valid when it ends the word (lines 126-128).
MarkNewChild(word, child, valid) ==
    IF Len(word) = 1 THEN valid \cup {child} ELSE valid

RECURSIVE insert(_, _, _)
insert(word, node, trie) ==
    IF word = << >> THEN trie
    ELSE LET firstLetter == Head(word)
             child == Append(node, firstLetter)
             grown == IF child \notin trie.nodes
                      THEN [nodes |-> trie.nodes \cup {child},
                            valid |-> MarkNewChild(word, child, trie.valid)]
                      ELSE trie
         IN  insert(Tail(word), child, grown)

LongEnoughAlways(word) == TRUE

LongEnough(word) == Len(word) >= minimumValidWordLength

\* One iteration of the loop of Trie.buildRoot.
buildRoot(word, trie) ==
    IF LongEnough(word) THEN insert(UpperWord(word), << >>, trie) ELSE trie

\* trie.children of the node `node`, as the set of its keys.
children(trie, node) ==
    {l \in {n[Len(n)] : n \in trie.nodes \ {<< >>}} : Append(node, l) \in trie.nodes}

(***************************************************************************)
(* ValidWordsGenerator.                                                    *)
(***************************************************************************)
rowLen == Len(board)

colLen == Len(board[1])

getAdjCells(x, y) ==
    LET InBounds(move) == /\ 0 <= x + move[1] /\ x + move[1] < rowLen
                          /\ 0 <= y + move[2] /\ y + move[2] < colLen
        moves == SelectSeq(directions, InBounds)
    IN  [i \in 1..Len(moves) |-> <<x + moves[i][1], y + moves[i][2]>>]

\* board[row][col] raises IndexError when the row has no such column.
InRange(b, row, col) == row < Len(b) /\ col < Len(b[row + 1])

VisitedNever(b, row, col) == FALSE

Visited(b, row, col) == b[row + 1][col + 1] = "*"

SetCell(b, row, col, v) == [b EXCEPT ![row + 1][col + 1] = v]

MarkNothing(b, row, col) == b

Mark(b, row, col) == SetCell(b, row, col, "*")

RestoreNothing(b, row, col, letter) == b

Restore(b, row, col, letter) == SetCell(b, row, col, letter)

IsWordEndAnyNode(trie, node, incoming_word) ==
    Len(incoming_word) >= minimumValidWordLength

IsWordEnd(trie, node, incoming_word) ==
    node \in trie.valid /\ Len(incoming_word) >= minimumValidWordLength

Frame(row, col, node, incoming_word) ==
    [row |-> row, col |-> col, trie |-> node, incoming_word |-> incoming_word,
     letter |-> "", k |-> 0, at |-> "enter"]

Top == stack[Len(stack)]

Pop == SubSeq(stack, 1, Len(stack) - 1)

ReplaceTop(f) == [stack EXCEPT ![Len(stack)] = f]

NoResult == [tag |-> "none", val |-> {}]

IndexError == [tag |-> "IndexError", val |-> {}]

(***************************************************************************)
(* Initial states: a caller holds a board and a dictionary and is about to *)
(* call generateValidWords.                                                *)
(***************************************************************************)
Init ==
    /\ board \in Boards
    /\ original = board
    /\ wordDictionary \in Dictionaries
    /\ call = 1
    /\ pc = "start"
    /\ wordTrie = NoTrie
    /\ buildIdx = 1
    /\ cursor = 0
    /\ stack = << >>
    /\ validWords = {}
    /\ result = NoResult
    /\ firstResult = NoResult

\* generateValidWords, lines 138-141, and ValidWordsGenerator.__init__ /
\* Trie.__init__ up to the call of buildRoot.
ShapeAccepted(b) ==
    IF Len(b) # validBoardSize THEN FALSE ELSE Len(b[1]) = validBoardSize

Validate ==
    /\ pc = "start"
    /\ IF ~ShapeAccepted(board)
       THEN /\ result' = InvalidBoardSize
            /\ pc' = "returned"
            /\ UNCHANGED <<wordTrie, buildIdx, cursor, validWords>>
       ELSE /\ wordTrie' = TrieNode
            /\ buildIdx' = 1
            /\ cursor' = 0
            /\ validWords' = {}
            /\ pc' = "build"
            /\ UNCHANGED result
    /\ UNCHANGED <<board, original, wordDictionary, call, stack, firstResult>>

\* Trie.buildRoot: one dictionary word per step.
BuildRootStep ==
    /\ pc = "build"
    /\ buildIdx <= Len(wordDictionary)
    /\ wordTrie' = buildRoot(wordDictionary[buildIdx], wordTrie)
    /\ buildIdx' = buildIdx + 1
    /\ UNCHANGED <<board, original, wordDictionary, call, pc, cursor, stack,
                   validWords, result, firstResult>>

\* The loop of buildRoot is over; getValidWords calls findValidWords.
StartSearch ==
    /\ pc = "build"
    /\ buildIdx > Len(wordDictionary)
    /\ pc' = "search"
    /\ cursor' = 0
    /\ UNCHANGED <<board, original, wordDictionary, call, wordTrie, buildIdx,
                   stack, validWords, result, firstResult>>

\* findValidWords: the next starting cell, in row-major order.
FindValidWordsStep ==
    /\ pc = "search"
    /\ stack = << >>
    /\ cursor < rowLen * colLen
    /\ stack' = <<Frame(cursor \div colLen, cursor % colLen, << >>, << >>)>>
    /\ cursor' = cursor + 1
    /\ UNCHANGED <<board, original, wordDictionary, call, pc, wordTrie,
                   buildIdx, validWords, result, firstResult>>

\* DFS lines 46-65: the visited check, the mark, the trie lookup and the
\* recording of a word.
DFSEnter ==
    /\ pc = "search"
    /\ stack # << >>
    /\ Top.at = "enter"
    /\ LET f == Top IN
       IF ~InRange(board, f.row, f.col)
       THEN /\ result' = IndexError
            /\ pc' = "returned"
            /\ stack' = << >>
            /\ UNCHANGED <<board, validWords>>
       ELSE IF Visited(board, f.row, f.col)
       THEN /\ stack' = Pop
            /\ UNCHANGED <<board, validWords, result, pc>>
       ELSE LET letter == Upper(board[f.row + 1][f.col + 1])
                child == Append(f.trie, letter)
                incoming_word == Append(f.incoming_word, letter)
            IN  /\ board' = Mark(board, f.row, f.col)
                /\ IF letter \in children(wordTrie, f.trie)
                   THEN /\ validWords' =
                              IF IsWordEnd(wordTrie, child, incoming_word)
                              THEN validWords \cup {incoming_word}
                              ELSE validWords
                        /\ stack' = ReplaceTop([f EXCEPT
                                        !.letter = letter,
                                        !.incoming_word = incoming_word,
                                        !.at = "loop"])
                   ELSE /\ validWords' = validWords
                        /\ stack' = ReplaceTop([f EXCEPT !.letter = letter,
                                                         !.at = "restore"])
                /\ UNCHANGED <<result, pc>>
    /\ UNCHANGED <<original, wordDictionary, call, wordTrie, buildIdx, cursor,
                   firstResult>>

\* DFS lines 68-69: the recursive call on the next adjacent cell.
DFSRecurse ==
    /\ pc = "search"
    /\ stack # << >>
    /\ Top.at = "loop"
    /\ LET f == Top
           adj == getAdjCells(f.row, f.col)
       IN  /\ f.k < Len(adj)
           /\ stack' = Append(ReplaceTop([f EXCEPT !.k = f.k + 1]),
                              Frame(adj[f.k + 1][1], adj[f.k + 1][2],
                                    Append(f.trie, f.letter), f.incoming_word))
    /\ UNCHANGED <<board, original, wordDictionary, call, pc, wordTrie,
                   buildIdx, cursor, validWords, result, firstResult>>

\* DFS line 72: the cell is given its letter back and the invocation returns.
DFSRestore ==
    /\ pc = "search"
    /\ stack # << >>
    /\ LET f == Top IN
       /\ \/ f.at = "restore"
          \/ f.at = "loop" /\ f.k = Len(getAdjCells(f.row, f.col))
       /\ board' = Restore(board, f.row, f.col, f.letter)
       /\ stack' = Pop
    /\ UNCHANGED <<original, wordDictionary, call, pc, wordTrie, buildIdx,
                   cursor, validWords, result, firstResult>>

\* getValidWords line 88 and generateValidWords lines 144-145.
ReturnValidWords ==
    /\ pc = "search"
    /\ stack = << >>
    /\ cursor = rowLen * colLen
    /\ result' = [tag |-> "set", val |-> validWords]
    /\ pc' = "returned"
    /\ UNCHANGED <<board, original, wordDictionary, call, wordTrie, buildIdx,
                   cursor, stack, validWords, firstResult>>

\* The caller calls generateValidWords again with the same board object and
\* the same dictionary.
CallAgain ==
    /\ pc = "returned"
    /\ call = 1
    /\ call' = 2
    /\ firstResult' = result
    /\ result' = NoResult
    /\ pc' = "start"
    /\ wordTrie' = NoTrie
    /\ buildIdx' = 1
    /\ cursor' = 0
    /\ validWords' = {}
    /\ UNCHANGED <<board, original, wordDictionary, stack>>

Next ==
    \/ Validate
    \/ BuildRootStep
    \/ StartSearch
    \/ FindValidWordsStep
    \/ DFSEnter
    \/ DFSRecurse
    \/ DFSRestore
    \/ ReturnValidWords
    \/ CallAgain

Spec == Init /\ [][Next]_vars

(***************************************************************************)
(* Notions the properties are stated with.                                 *)
(***************************************************************************)
Is4x4(b) ==
    Len(b) = validBoardSize /\ \A r \in 1..Len(b) : Len(b[r]) = validBoardSize

\* The cells of b within the 4x4 grid.
Cells(b) ==
    {rc \in (0..(validBoardSize - 1)) \X (0..(validBoardSize - 1)) :
         InRange(b, rc[1], rc[2])}

Abs(n) == IF n < 0 THEN -n ELSE n

Adjacent(p, q) ==
    p # q /\ Abs(p[1] - q[1]) <= 1 /\ Abs(p[2] - q[2]) <= 1

\* Some path of pairwise distinct, successively adjacent cells of b that
\* starts at cell p and avoids the cells in used spells w[i..Len(w)].
RECURSIVE PathFrom(_, _, _, _, _)
PathFrom(b, w, i, p, used) ==
    /\ Upper(b[p[1] + 1][p[2] + 1]) = w[i]
    /\ \/ i = Len(w)
       \/ \E q \in Cells(b) \ (used \cup {p}) :
              Adjacent(p, q) /\ PathFrom(b, w, i + 1, q, used \cup {p})

Traceable(b, w) ==
    w # << >> /\ \E p \in Cells(b) : PathFrom(b, w, 1, p, {})

DictionaryWords == {wordDictionary[i] : i \in 1..Len(wordDictionary)}

IsPrefix(p, w) == Len(p) <= Len(w) /\ SubSeq(w, 1, Len(p)) = p

MarkedCells ==
    {rc \in Cells(board) : board[rc[1] + 1][rc[2] + 1] = "*"}

Passed == {i \in 1..Len(stack) : stack[i].at # "enter"}

CellCount == validBoardSize * validBoardSize

Finished == pc = "returned"

(***************************************************************************)
(* C1 - Completeness: when generateValidWords returns for a 4x4 board, the *)
(* result is a set that contains the uppercase form of every dictionary    *)
(* word of length >= 3 that can be traced on the board as a path of        *)
(* adjacent cells without reusing a cell, whatever the dictionary's order. *)
(***************************************************************************)
C1_Completeness ==
    (Finished /\ Is4x4(original)) =>
        /\ result.tag = "set"
        /\ \A w \in DictionaryWords :
               (Len(w) >= 3 /\ Traceable(original, UpperWord(w)))
                   => UpperWord(w) \in result.val

(***************************************************************************)
(* C2 - Soundness: every word recorded or returned has length >= 3, is the *)
(* uppercase form of a dictionary entry and is spelled by the uppercased   *)
(* letters of a path of adjacent, pairwise distinct cells of the board.    *)
(***************************************************************************)
SoundWord(w) ==
    /\ Len(w) >= 3
    /\ \E d \in DictionaryWords : UpperWord(d) = w
    /\ Traceable(original, w)

C2_Soundness ==
    /\ \A w \in validWords : SoundWord(w)
    /\ result.tag = "set" => \A w \in result.val : SoundWord(w)

C2_Witness ==
    /\ Finished
    /\ original = BoardMixed
    /\ result.tag = "set"
    /\ result.val = {CATS, UpperWord(dog)}

(***************************************************************************)
(* C3 - Shape validation: for every board that is not 4 rows of 4 cells    *)
(* the call ends with the invalid-board-size outcome: no crash, no set.    *)
(***************************************************************************)
C3_ShapeValidation ==
    (Finished /\ ~Is4x4(original)) =>
        (result.tag = "str" /\ result = InvalidBoardSize)

(***************************************************************************)
(* C4 - Board restoration: when the call returns for a 4x4 board, every    *)
(* cell of the caller's board holds the value it held before the call.     *)
(***************************************************************************)
C4_BoardRestored ==
    (Finished /\ call = 1 /\ Is4x4(original)) => board = original

(***************************************************************************)
(* C5 - Trie terminal marking: once the trie is built, the node spelled by *)
(* the uppercase form of every dictionary word of length >= 3 exists and   *)
(* is valid, in any insertion order and with duplicates.                   *)
(***************************************************************************)
C5_TerminalMarked ==
    pc = "search" =>
        \A w \in DictionaryWords :
            Len(w) >= 3 => /\ UpperWord(w) \in wordTrie.nodes
                           /\ UpperWord(w) \in wordTrie.valid

(***************************************************************************)
(* C6 - Repeatability: a second call with the same board object and the    *)
(* same dictionary ends as the first call did, and when both return sets   *)
(* the sets are equal.                                                     *)
(***************************************************************************)
C6_Repeatable ==
    (Finished /\ call = 2) =>
        /\ result.tag = firstResult.tag
        /\ result.tag = "set" => result.val = firstResult.val

C6_Witness ==
    /\ Finished
    /\ call = 2
    /\ result.tag = "set"
    /\ result.val # {}
    /\ board # original

(***************************************************************************)
(* C7 - Minimum-length filter: every trie node other than the root lies on *)
(* the uppercase spelling of a dictionary word of length >= 3, every valid *)
(* node spells such a word, and no word shorter than 3 is ever recorded or *)
(* returned.                                                               *)
(***************************************************************************)
C7_MinimumLength ==
    /\ \A n \in wordTrie.nodes \ {<< >>} :
           \E d \in DictionaryWords : Len(d) >= 3 /\ IsPrefix(n, UpperWord(d))
    /\ \A n \in wordTrie.valid :
           \E d \in DictionaryWords : Len(d) >= 3 /\ n = UpperWord(d)
    /\ \A w \in validWords : Len(w) >= 3
    /\ result.tag = "set" =>
           \A d \in DictionaryWords :
               Len(d) < 3 => UpperWord(d) \notin result.val

C7_Witness ==
    /\ Finished
    /\ original = BoardCats
    /\ wordDictionary = <<CA, CAT>>
    /\ Traceable(original, CA)
    /\ result.tag = "set"
    /\ result.val = {CAT}

(***************************************************************************)
(* C8 - Backtracking invariant: during a search of a board on which no     *)
(* earlier call crashed, the cells holding "*" are exactly the cells of    *)
(* the active DFS invocations that passed the visited check; these cells   *)
(* are pairwise distinct, so the accumulated word has one letter per cell  *)
(* of the path; every invocation below the innermost one has marked its    *)
(* cell and is trying its neighbours; between two starting cells no cell   *)
(* is marked.  A neighbour is entered only from a marked cell, and a cell  *)
(* is unmarked only by the innermost invocation, on that cell, when it has *)
(* no neighbour left to try.                                               *)
(***************************************************************************)
CellOf(f) == <<f.row, f.col>>

BacktrackingState ==
    (pc = "search" /\ firstResult.tag # "IndexError") =>
        /\ MarkedCells = {CellOf(stack[i]) : i \in Passed}
        /\ \A i, j \in Passed : i # j => CellOf(stack[i]) # CellOf(stack[j])
        /\ \A i \in 1..Len(stack) :
               i < Len(stack) =>
                   /\ stack[i].at = "loop"
                   /\ stack[i].k >= 1
                   /\ Adjacent(CellOf(stack[i]), CellOf(stack[i + 1]))
        /\ \A i \in Passed :
               stack[i].at = "loop" =>
                   Len(stack[i].incoming_word) =
                       Cardinality({j \in Passed : j <= i})
        /\ stack = << >> => MarkedCells = {}

BacktrackingStep ==
    (pc = "search" /\ pc' = "search" /\ firstResult.tag # "IndexError") =>
        /\ (Len(stack') > Len(stack) /\ stack # << >>) =>
               Visited(board, Top.row, Top.col)
        /\ \A rc \in MarkedCells :
               ~Visited(board', rc[1], rc[2]) =>
                   /\ rc = CellOf(Top)
                   /\ stack' = Pop
                   /\ \/ Top.at = "restore"
                            /\ Top.letter \notin children(wordTrie, Top.trie)
                      \/ Top.at = "loop"
                            /\ Top.k = Len(getAdjCells(Top.row, Top.col))

C8_Backtracking == []BacktrackingState /\ [][BacktrackingStep]_vars

C8_Witness ==
    /\ pc = "search"
    /\ original = BoardDense
    /\ Len(stack) >= 4
    /\ Cardinality(MarkedCells) >= 3
    /\ Top.at = "enter"
    /\ Visited(board, Top.row, Top.col)

(***************************************************************************)
(* C9 - Bounded recursion, as claimed: never more than 16 DFS invocations  *)
(* are active at once.                                                     *)
(***************************************************************************)
C9_DepthAtMost16 == Len(stack) <= CellCount

(***************************************************************************)
(* Progress measure of a run: the call, the phase of the call, the loop    *)
(* positions of buildRoot and findValidWords, then one digit per DFS       *)
(* nesting level, outermost first (11 where no invocation is active).      *)
(***************************************************************************)
PcRank ==
    CASE pc = "start" -> 0
      [] pc = "build" -> 1
      [] pc = "search" -> 2
      [] pc = "returned" -> 3

Digit(i) ==
    IF i > Len(stack) THEN 11
    ELSE CASE stack[i].at = "enter" -> 0
           [] stack[i].at = "loop" -> 1 + stack[i].k
           [] stack[i].at = "restore" -> 10

Rank ==
    <<call, PcRank, buildIdx, cursor>> \o [i \in 1..(CellCount + 1) |-> Digit(i)]

RankBounded ==
    /\ call \in 1..2
    /\ buildIdx \in 1..(Len(wordDictionary) + 1)
    /\ cursor \in 0..CellCount
    /\ \A i \in 1..Len(stack) : stack[i].k \in 0..Len(directions)

LexLess(a, b) ==
    \E i \in 1..Len(a) : a[i] < b[i] /\ \A j \in 1..(i - 1) : a[j] = b[j]

(***************************************************************************)
(* C9, amended - never more than 17 DFS invocations are active at once, of *)
(* which at most 16 have passed the visited check; and every step of a run *)
(* strictly increases a bounded progress measure, so every call ends.      *)
(***************************************************************************)
C9_DepthBound ==
    /\ [](/\ Len(stack) <= CellCount + 1
          /\ Cardinality(Passed) <= CellCount
          /\ RankBounded)
    /\ [][LexLess(Rank, Rank')]_vars

C9_Witness ==
    /\ Len(stack) = CellCount + 1
    /\ Cardinality(Passed) = CellCount
    /\ Top.at = "enter"

(***************************************************************************)
(* C10 - Fail-fast shape error: when the size check rejects the board, the *)
(* call ends with the invalid-board-size message, which is no result set,  *)
(* with no trie constructed, no DFS started and the board unchanged.       *)
(***************************************************************************)
C10_FailFast ==
    (Finished /\ ~ShapeAccepted(original)) =>
        /\ result.tag = "str"
        /\ result.tag # "set"
        /\ result = InvalidBoardSize
        /\ wordTrie = NoTrie
        /\ cursor = 0
        /\ stack = << >>
        /\ validWords = {}
        /\ board = original

C10_Witness ==
    /\ Finished
    /\ call = 2
    /\ original = Board5x4
    /\ Len(wordDictionary) > 0
    /\ result.tag = "str"

====
